---------------------------- MODULE Spec2Model ----------------------------
(***************************************************************************)
(* EnvFlag (env-flag): a browser badge that shows the runtime environment. *)
(*                                                                         *)
(* The model follows the class EnvFlag of src/unnamed/part_000 (the        *)
(* implementation with custom bundler variables): the environment          *)
(* resolver (getCurrentEnvironment, detectEnvironment, getNodeEnv,         *)
(* getCustomEnv) as operators over the host signals, and the indicator     *)
(* lifecycle (init, destroy, updateConfig, the event handlers and the      *)
(* animation-frame callback) as actions over the component and the DOM.    *)
(***************************************************************************)
EXTENDS Integers, Sequences, FiniteSets, TLC

VARIABLES
    window,          \* typeof window/document !== "undefined" (a browser host)
    body,            \* document.body exists
    hostname,        \* window.location?.hostname || ""
    importMetaEnv,   \* import.meta.env: [present, vars]
    processEnv,      \* globalThis.process?.env: [present, vars]
    config,          \* this.config
    flagElement,     \* this.flagElement: an element identity or Null
    eventListeners,  \* this.eventListeners: sequence of [element, event]
    elements,        \* every element created so far, by identity
    bodyChildren,    \* the indicator elements that are children of document.body
    rafPending,      \* animation-frame callbacks scheduled and not yet run
    returned,        \* what the last getCurrentEnvironment() call returned
    returnedFor,     \* this.config at the last getCurrentEnvironment() call
    thrown,          \* the last call or handler ended by propagating an exception
    defaultPrevented,\* the keydown event just dispatched had preventDefault() called
    pressedKey,      \* event.key of the keydown event just dispatched, if any
    calls,           \* the last two lifecycle calls / events, oldest first
    argument,        \* newConfig of the updateConfig() call just made, if any
    autoEnvFlag      \* the instance the module creates for itself when loaded:
                     \* [status, config, flagElement, eventListeners, rafPending]

hostVars == <<window, body, hostname, importMetaEnv, processEnv>>
compVars == <<config, flagElement, eventListeners>>
domVars  == <<elements, bodyChildren, rafPending>>
vars == <<window, body, hostname, importMetaEnv, processEnv, config, flagElement,
          eventListeners, elements, bodyChildren, rafPending, returned,
          returnedFor, thrown, defaultPrevented, pressedKey, calls, argument,
          autoEnvFlag>>

-----------------------------------------------------------------------------
(* Values *)

Environment == {"development", "production", "staging", "test"}
Position == {"top-right", "top-left", "bottom-right", "bottom-left"}
Size == {"small", "medium", "large"}

\* JavaScript's undefined (an unset property, an unset forceEnv).
Undefined == "<undefined>"
\* this.flagElement = null
Null == 0
\* The outcome of a call that raises instead of returning.
ReferenceError == "<ReferenceError>"
\* No call made yet.
NoCall == "<no call>"

\* JavaScript truthiness of a string-or-undefined value.
Truthy(v) == v # Undefined /\ v # ""

\* a || b
Or(a, b) == IF Truthy(a) THEN a ELSE b

\* String.prototype.includes
Includes(h, n) ==
    \E i \in 1..(Len(h) - Len(n) + 1) : SubSeq(h, i, i + Len(n) - 1) = n

-----------------------------------------------------------------------------
(* Configuration *)

ConfigFields ==
    {"productionColor", "developmentColor", "stagingColor", "testColor",
     "productionText", "developmentText", "stagingText", "testText",
     "position", "size", "autoDetectEnv", "forceEnv", "enabled", "debug"}

\* DEFAULT_CONFIG has every field except forceEnv.
DEFAULT_CONFIG ==
    [productionColor |-> "#f8285a", developmentColor |-> "#17c653",
     stagingColor |-> "#f39c12", testColor |-> "#9b59b6",
     productionText |-> "PROD", developmentText |-> "DEV",
     stagingText |-> "STAGING", testText |-> "TEST",
     position |-> "bottom-right", size |-> "medium",
     autoDetectEnv |-> TRUE, enabled |-> TRUE, debug |-> FALSE]

\* Reading a property: an absent property reads as undefined.
Get(obj, f) == IF f \in DOMAIN obj THEN obj[f] ELSE Undefined

\* { ...a, ...b } and Object.assign(a, b): b's own properties over a's.
Assign(a, b) ==
    [f \in (DOMAIN a) \cup (DOMAIN b) |-> IF f \in DOMAIN b THEN b[f] ELSE a[f]]

\* constructor(config): this.config = { ...DEFAULT_CONFIG, ...config }
constructor(cfg) == Assign(DEFAULT_CONFIG, cfg)

-----------------------------------------------------------------------------
(* Environment resolver *)

\* The fixed priority list of getCustomEnv.
customEnvVars ==
    <<"VITE_APP_NODE_ENV", "VITE_APP_ENV", "VITE_ENV", "REACT_APP_NODE_ENV",
      "REACT_APP_ENV", "VUE_APP_NODE_ENV", "VUE_APP_ENV">>

\* Every variable name the resolver reads from a store.
EnvVarNames ==
    {customEnvVars[i] : i \in 1..Len(customEnvVars)} \cup {"NODE_ENV", "VITE_NODE_ENV"}

isValidEnvironmentString(env) ==
    env \in {"development", "production", "staging", "test"}

\* The first variable of the list, from index i on, whose value in the store
\* is truthy and a recognized name; "" when there is none.
RECURSIVE FirstCustom(_, _)
FirstCustom(store, i) ==
    IF i > Len(customEnvVars) THEN ""
    ELSE LET value == store[customEnvVars[i]]
         IN  IF Truthy(value) /\ isValidEnvironmentString(value)
             THEN value
             ELSE FirstCustom(store, i + 1)

\* Mutant: process.env is looked at before import.meta.env.
getCustomEnv_processFirst ==
    LET vite == IF importMetaEnv.present THEN FirstCustom(importMetaEnv.vars, 1) ELSE ""
        node == IF processEnv.present THEN FirstCustom(processEnv.vars, 1) ELSE ""
    IN  IF node # "" THEN node ELSE vite

getCustomEnv ==
    LET vite == IF importMetaEnv.present THEN FirstCustom(importMetaEnv.vars, 1) ELSE ""
        node == IF processEnv.present THEN FirstCustom(processEnv.vars, 1) ELSE ""
    IN  IF vite # "" THEN vite ELSE node

\* Mutant: VITE_NODE_ENV is not read.
getNodeEnv_noViteFallback ==
    LET viteEnv == IF importMetaEnv.present THEN importMetaEnv.vars["NODE_ENV"]
                   ELSE Undefined
        nodeEnv == IF processEnv.present THEN processEnv.vars["NODE_ENV"] ELSE Undefined
    IN  IF Truthy(viteEnv) /\ isValidEnvironmentString(viteEnv) THEN viteEnv
        ELSE IF Truthy(nodeEnv) /\ isValidEnvironmentString(nodeEnv) THEN nodeEnv
        ELSE ""

getNodeEnv ==
    LET viteEnv == IF importMetaEnv.present
                   THEN Or(importMetaEnv.vars["NODE_ENV"], importMetaEnv.vars["VITE_NODE_ENV"])
                   ELSE Undefined
        nodeEnv == IF processEnv.present THEN processEnv.vars["NODE_ENV"] ELSE Undefined
    IN  IF Truthy(viteEnv) /\ isValidEnvironmentString(viteEnv) THEN viteEnv
        ELSE IF Truthy(nodeEnv) /\ isValidEnvironmentString(nodeEnv) THEN nodeEnv
        ELSE ""

\* Mutant: "test" is missing from the production exclusions and the empty
\* hostname is not excluded.
HostnameEnvironment_noTestExclusion(h) ==
    IF \/ Includes(h, "prod")
       \/ /\ ~Includes(h, "localhost")
          /\ ~Includes(h, "127.0.0.1")
          /\ ~Includes(h, "dev")
          /\ ~Includes(h, "staging")
    THEN "production"
    ELSE IF Includes(h, "staging") \/ Includes(h, "stage") THEN "staging"
    ELSE IF Includes(h, "test") THEN "test"
    ELSE "development"

\* Priority 3 of detectEnvironment: the hostname heuristic.
HostnameEnvironment(h) ==
    IF \/ Includes(h, "prod")
       \/ /\ ~Includes(h, "localhost")
          /\ ~Includes(h, "127.0.0.1")
          /\ ~Includes(h, "dev")
          /\ ~Includes(h, "staging")
          /\ ~Includes(h, "test")
          /\ Len(h) > 0
    THEN "production"
    ELSE IF Includes(h, "staging") \/ Includes(h, "stage") THEN "staging"
    ELSE IF Includes(h, "test") THEN "test"
    ELSE "development"

\* Mutant: the generic signal is looked at before the custom variables.
detectEnvironment_nodeEnvFirst ==
    IF ~window THEN ReferenceError
    ELSE IF getNodeEnv # "" THEN getNodeEnv
    ELSE IF getCustomEnv # "" THEN getCustomEnv
    ELSE HostnameEnvironment(hostname)

\* window.location is read first: without a window the call raises.
detectEnvironment ==
    IF ~window THEN ReferenceError
    ELSE LET customEnv == getCustomEnv
             nodeEnv == getNodeEnv
         IN  IF customEnv # "" THEN customEnv
             ELSE IF nodeEnv # "" THEN nodeEnv
             ELSE HostnameEnvironment(hostname)

\* Mutant: detection runs before the override is looked at.
getCurrentEnvironment_detectFirst(cfg) ==
    IF cfg.autoDetectEnv /\ window THEN detectEnvironment
    ELSE IF Truthy(Get(cfg, "forceEnv")) THEN cfg.forceEnv
    ELSE "development"

\* Mutant: the auto-detect toggle is not looked at.
getCurrentEnvironment_noToggle(cfg) ==
    IF Truthy(Get(cfg, "forceEnv")) THEN cfg.forceEnv
    ELSE detectEnvironment

getCurrentEnvironment(cfg) ==
    IF Truthy(Get(cfg, "forceEnv")) THEN cfg.forceEnv
    ELSE IF ~cfg.autoDetectEnv THEN "development"
    ELSE detectEnvironment

\* Mutant: every host is taken for a browser.
isValidEnvironment_always == TRUE

isValidEnvironment == window


-----------------------------------------------------------------------------
(* Style and layout lookups *)

ELEMENT_ID == "env-flag-indicator"

getEnvironmentText(cfg, environment) ==
    CASE environment = "production" -> cfg.productionText
      [] environment = "development" -> cfg.developmentText
      [] environment = "staging" -> cfg.stagingText
      [] environment = "test" -> cfg.testText

\* Mutant: the large size reuses the medium row.
getSizeStyles_largeAsMedium(cfg) ==
    CASE cfg.size = "small" -> [fontSize |-> "10px", padding |-> "4px 8px"]
      [] cfg.size = "medium" -> [fontSize |-> "12px", padding |-> "6px 12px"]
      [] cfg.size = "large" -> [fontSize |-> "12px", padding |-> "6px 12px"]

getSizeStyles(cfg) ==
    CASE cfg.size = "small" -> [fontSize |-> "10px", padding |-> "4px 8px"]
      [] cfg.size = "medium" -> [fontSize |-> "12px", padding |-> "6px 12px"]
      [] cfg.size = "large" -> [fontSize |-> "14px", padding |-> "8px 16px"]

getPositionStyles(cfg) ==
    CASE cfg.position = "top-right" -> [borderRadius |-> "0 0 0 4px"]
      [] cfg.position = "top-left" -> [borderRadius |-> "0 0 4px 0"]
      [] cfg.position = "bottom-left" -> [borderRadius |-> "0 4px 0 0"]
      [] cfg.position = "bottom-right" -> [borderRadius |-> "4px 0 0 0"]

getPositionCoordinates(cfg) ==
    CASE cfg.position = "top-right" -> [top |-> "0", right |-> "0"]
      [] cfg.position = "top-left" -> [top |-> "0", left |-> "0"]
      [] cfg.position = "bottom-left" -> [bottom |-> "0", left |-> "0"]
      [] cfg.position = "bottom-right" -> [bottom |-> "0", right |-> "0"]

getEnvironmentStyles(cfg, environment) ==
    [backgroundColor |->
        CASE environment = "production" -> cfg.productionColor
          [] environment = "development" -> cfg.developmentColor
          [] environment = "staging" -> cfg.stagingColor
          [] environment = "test" -> cfg.testColor,
     color |-> "#ffffff",
     fontSize |-> getSizeStyles(cfg).fontSize,
     padding |-> getSizeStyles(cfg).padding,
     borderRadius |-> getPositionStyles(cfg).borderRadius,
     opacity |-> "0.9"]

-----------------------------------------------------------------------------
(* The component and the DOM as one record, so that a method is an operator *)
(* from the state before it to the state after it.  fault names the host    *)
(* call that raises during the handler ("none": every host call succeeds).  *)

Faults == {"none", "createElement", "requestAnimationFrame", "removeChild"}

World(fault) ==
    [config |-> config, flagElement |-> flagElement, eventListeners |-> eventListeners,
     elements |-> elements, bodyChildren |-> bodyChildren, rafPending |-> rafPending,
     thrown |-> FALSE, fault |-> fault]

\* The sequence s without the value e.
Without(s, e) == SelectSeq(s, LAMBDA x : x # e)

Contains(s, e) == \E i \in 1..Len(s) : s[i] = e

\* document.createElement("div") followed by the id and attributes createFlag sets.
NewElement(environment) ==
    [id |-> ELEMENT_ID, dataEnv |-> environment, role |-> "status",
     ariaLabel |-> environment, tabindex |-> Undefined, textContent |-> "",
     style |-> [fontSize |-> "", padding |-> "", backgroundColor |-> "",
                borderRadius |-> "", opacity |-> "", transform |-> "",
                coords |-> << >>],
     listeners |-> {}]

applyStyles(w, environment) ==
    IF w.flagElement = Null THEN w
    ELSE LET styles == getEnvironmentStyles(w.config, environment)
             positionStyles == getPositionStyles(w.config)
             sizeStyles == getSizeStyles(w.config)
             el == w.elements[w.flagElement]
         IN  [w EXCEPT !.elements[w.flagElement] =
                [el EXCEPT !.style = [el.style EXCEPT
                                        !.backgroundColor = styles.backgroundColor,
                                        !.fontSize = sizeStyles.fontSize,
                                        !.padding = sizeStyles.padding,
                                        !.borderRadius = positionStyles.borderRadius,
                                        !.opacity = styles.opacity,
                                        !.coords = getPositionCoordinates(w.config)],
                            !.textContent = getEnvironmentText(w.config, environment)]]

\* The four registrations, in the order the code pushes them.
ListenerEvents == <<"click", "mouseenter", "mouseleave", "keydown">>

attachEventListeners(w) ==
    IF w.flagElement = Null THEN w
    ELSE [w EXCEPT
            !.elements[w.flagElement].listeners =
                @ \cup {ListenerEvents[i] : i \in 1..Len(ListenerEvents)},
            !.elements[w.flagElement].tabindex = "0",
            !.eventListeners =
                @ \o [i \in 1..Len(ListenerEvents) |->
                        [element |-> w.flagElement, event |-> ListenerEvents[i]]]]

removeEventListeners(w) ==
    [w EXCEPT
        !.elements = [e \in DOMAIN w.elements |->
            [w.elements[e] EXCEPT !.listeners =
                @ \ {w.eventListeners[i].event : i \in
                        {j \in 1..Len(w.eventListeners) : w.eventListeners[j].element = e}}]],
        !.eventListeners = << >>]

\* Mutant: the reference is dropped but the element stays in the document.
removeFlagElement_keepsChild(w) ==
    IF w.flagElement # Null /\ body /\ Contains(w.bodyChildren, w.flagElement)
    THEN [w EXCEPT !.flagElement = Null]
    ELSE w

removeFlagElement(w) ==
    IF w.flagElement # Null /\ body /\ Contains(w.bodyChildren, w.flagElement)
    THEN IF w.fault = "removeChild"
         THEN [w EXCEPT !.thrown = TRUE]
         ELSE [w EXCEPT !.bodyChildren = Without(@, w.flagElement),
                        !.flagElement = Null]
    ELSE w

\* destroy has no exception handler: what removeFlagElement raises, it raises.
destroy(w) == removeFlagElement(removeEventListeners(w))

\* Mutant: the element is appended to the body at once, if there is one.
createFlagRest_appendsAtOnce(w, environment) ==
    LET styled == attachEventListeners(applyStyles(w, environment))
        placed == IF body THEN [styled EXCEPT !.bodyChildren = Append(@, w.flagElement)]
                  ELSE styled
    IN  IF w.fault = "requestAnimationFrame"
        THEN [styled EXCEPT !.thrown = TRUE]
        ELSE [placed EXCEPT !.rafPending = @ + 1]

\* The part of createFlag after the element exists.
createFlagRest(w, environment) ==
    LET styled == attachEventListeners(applyStyles(w, environment))
    IN  IF w.fault = "requestAnimationFrame"
        THEN [styled EXCEPT !.thrown = TRUE]
        ELSE [styled EXCEPT !.rafPending = @ + 1]

createFlag(w) ==
    LET environment == getCurrentEnvironment(w.config)
    IN  IF environment = ReferenceError \/ w.fault = "createElement"
        THEN [w EXCEPT !.thrown = TRUE]
        ELSE createFlagRest(
                [w EXCEPT !.elements = Append(@, NewElement(environment)),
                          !.flagElement = Len(w.elements) + 1],
                environment)

\* Mutant: init does not clean up the existing flag first.
init_noCleanup(w) ==
    IF ~isValidEnvironment THEN w
    ELSE IF ~w.config.enabled THEN w
    ELSE createFlag(w)

\* init has no exception handler either.
init(w) ==
    IF ~isValidEnvironment THEN w
    ELSE IF ~w.config.enabled THEN w
    ELSE LET cleaned == destroy(w)
         IN  IF cleaned.thrown THEN cleaned ELSE createFlag(cleaned)

\* Mutant: the new configuration is merged only where init() will act on it.
updateConfig_onlyWhenActive(w, newConfig) ==
    IF ~isValidEnvironment \/ ~w.config.enabled THEN w
    ELSE init([w EXCEPT !.config = Assign(@, newConfig)])

updateConfig(w, newConfig) == init([w EXCEPT !.config = Assign(@, newConfig)])

\* The callback createFlag hands to requestAnimationFrame.
animationFrame(w) ==
    LET ran == [w EXCEPT !.rafPending = @ - 1]
    IN  IF w.flagElement # Null /\ body
        THEN [ran EXCEPT !.bodyChildren = Append(Without(@, w.flagElement), w.flagElement)]
        ELSE ran

handleClick(w) == destroy(w)

handleMouseEnter(w) ==
    IF w.flagElement # Null
    THEN [w EXCEPT !.elements[w.flagElement].style.opacity = "1",
                   !.elements[w.flagElement].style.transform = "scale(1.05)"]
    ELSE w

handleMouseLeave(w) ==
    IF w.flagElement # Null
    THEN [w EXCEPT !.elements[w.flagElement].style.opacity = "0.9",
                   !.elements[w.flagElement].style.transform = "scale(1)"]
    ELSE w

\* Whether handleKeydown calls preventDefault() and destroy().
ActivationKey(key) == key = "Enter" \/ key = " "

handleKeydown(w, key) == IF ActivationKey(key) THEN destroy(w) ELSE w

-----------------------------------------------------------------------------
(* Bounds and input sets *)

\* Elements one component creates in a behaviour.
MaxElements == 3
\* Animation-frame callbacks waiting at once.
MaxRaf == 2
\* Variables defined at once over the two variable stores.
MaxDefined == 2

\* Configurations handed to the constructor in the lifecycle specifications.
ConstructorConfigs ==
    {<< >>, [enabled |-> FALSE], [size |-> "small", forceEnv |-> "staging"]}

\* Partial configurations handed to updateConfig.
PartialConfigs ==
    {[size |-> "large"], [size |-> "small", forceEnv |-> "production"],
     [enabled |-> FALSE], [enabled |-> TRUE]}

\* Keys of the keydown events.
Keys == {"Enter", " ", "Escape"}

\* Page hostnames of the resolver specification.
Hostnames ==
    {"staging.example.com", "my-test-site.io", "app.example.com", "localhost", ""}

\* Labels of the page hostnames of the hostname specification: the markers the
\* heuristic looks for, and a neutral one.
HostnameLabels ==
    {"prod", "staging", "stage", "test", "dev", "localhost", "127.0.0.1", "app"}

\* The empty hostname, the labels, and the two-label hostnames.
LabelledHostnames ==
    {""} \cup HostnameLabels
         \cup {a \o "." \o b : a \in HostnameLabels, b \in HostnameLabels}

\* Values a defined variable holds: recognized names and an unrecognized one.
EnvValues == {"development", "production", "staging", "test", "prod"}

\* A store in which no variable is defined, and an absent store.
EmptyVars == [n \in EnvVarNames |-> Undefined]
AbsentStore == [present |-> FALSE, vars |-> EmptyVars]

\* The variables the resolver specification defines: the first, a middle and the
\* last custom variable, and the two generic ones.
DefinedNames == {"VITE_APP_NODE_ENV", "VITE_ENV", "VUE_APP_ENV", "NODE_ENV", "VITE_NODE_ENV"}

\* The places a variable can be defined: (store, name).
Slots == {"meta", "process"} \X DefinedNames

\* The assignments of values to at most MaxDefined slots.
RECURSIVE SlotSets(_)
SlotSets(k) ==
    IF k = 0 THEN {{}}
    ELSE LET smaller == SlotSets(k - 1)
         IN  smaller \cup {D \cup {s} : D \in smaller, s \in Slots}

Assignments == UNION {[D -> EnvValues] : D \in SlotSets(MaxDefined)}

\* The store named which under assignment a: absent when a defines none of its
\* variables.
StoreOf(a, which) ==
    LET mine == {s \in DOMAIN a : s[1] = which}
    IN  [present |-> mine # {},
         vars |-> [n \in EnvVarNames |->
                     IF <<which, n>> \in mine THEN a[<<which, n>>] ELSE Undefined]]

\* Values a custom variable holds in the custom-variable specification: two
\* recognized names, an unrecognized one and the empty string.
CustomEnvValues == {"production", "staging", "prod", ""}

\* The places a custom variable can be defined: (store, name), every name of
\* the priority list.
CustomSlots == {"meta", "process"} \X {customEnvVars[i] : i \in 1..Len(customEnvVars)}

RECURSIVE CustomSlotSets(_)
CustomSlotSets(k) ==
    IF k = 0 THEN {{}}
    ELSE LET smaller == CustomSlotSets(k - 1)
         IN  smaller \cup {D \cup {s} : D \in smaller, s \in CustomSlots}

\* The assignments of values to at most MaxDefined custom slots.
CustomAssignments == UNION {[D -> CustomEnvValues] : D \in CustomSlotSets(MaxDefined)}

\* The module's own instance before the module is loaded.
NotLoaded ==
    [status |-> "unloaded", config |-> << >>, flagElement |-> Null,
     eventListeners |-> << >>, rafPending |-> 0]

-----------------------------------------------------------------------------
(* Initial states *)

InitComponent(cfg) ==
    /\ config = constructor(cfg)
    /\ flagElement = Null
    /\ eventListeners = << >>
    /\ elements = << >>
    /\ bodyChildren = << >>
    /\ rafPending = 0
    /\ returned = NoCall
    /\ returnedFor = constructor(cfg)
    /\ thrown = FALSE
    /\ defaultPrevented = FALSE
    /\ pressedKey = NoCall
    /\ calls = <<NoCall, NoCall>>
    /\ argument = << >>
    /\ autoEnvFlag = NotLoaded

\* Lifecycle: a freshly constructed component in a host whose variable stores
\* are absent; the body may not be parsed yet.
Init ==
    /\ window \in BOOLEAN
    /\ body \in (IF window THEN BOOLEAN ELSE {FALSE})
    /\ hostname = (IF window THEN "localhost" ELSE "")
    /\ importMetaEnv = AbsentStore
    /\ processEnv = AbsentStore
    /\ \E cfg \in ConstructorConfigs : InitComponent(cfg)

\* Resolver: every combination of override, auto-detect toggle, variable stores
\* and hostname.
InitEnv ==
    /\ window \in BOOLEAN
    /\ body = window
    /\ hostname \in (IF window THEN Hostnames ELSE {""})
    /\ \E a \in Assignments :
          /\ importMetaEnv = StoreOf(a, "meta")
          /\ processEnv = StoreOf(a, "process")
    /\ \E force \in Environment \cup {Undefined}, auto \in BOOLEAN :
          InitComponent(IF force = Undefined
                        THEN [autoDetectEnv |-> auto]
                        ELSE [autoDetectEnv |-> auto, forceEnv |-> force])

\* Hostname heuristic: a browser page on each hostname, no override,
\* auto-detect on, and variable stores that are absent or hold no variable.
InitHost ==
    /\ window = TRUE
    /\ body = TRUE
    /\ hostname \in LabelledHostnames
    /\ importMetaEnv \in {AbsentStore, [present |-> TRUE, vars |-> EmptyVars]}
    /\ processEnv = importMetaEnv
    /\ InitComponent(<< >>)

\* Custom variables: a browser page on localhost, no override, auto-detect on,
\* and custom variables defined in either store.
InitCustom ==
    /\ window = TRUE
    /\ body = TRUE
    /\ hostname = "localhost"
    /\ \E a \in CustomAssignments :
          /\ importMetaEnv = StoreOf(a, "meta")
          /\ processEnv = StoreOf(a, "process")
    /\ InitComponent(<< >>)

\* A page about to load the module, in which user code will construct one
\* instance; the body may not be parsed yet.
InitModule ==
    /\ window = TRUE
    /\ body \in BOOLEAN
    /\ hostname = "localhost"
    /\ importMetaEnv = AbsentStore
    /\ processEnv = AbsentStore
    /\ \E cfg \in ConstructorConfigs : InitComponent(cfg)

-----------------------------------------------------------------------------
(* Actions *)

\* The component and the DOM after a method or handler that ended in w.
Apply(w) ==
    /\ config' = w.config
    /\ flagElement' = w.flagElement
    /\ eventListeners' = w.eventListeners
    /\ elements' = w.elements
    /\ bodyChildren' = w.bodyChildren
    /\ rafPending' = w.rafPending
    /\ thrown' = w.thrown
    /\ autoEnvFlag' = autoEnvFlag

Called(op) == calls' = <<calls[2], op>>

\* The step dispatches no keydown event.
NoKeyEvent == defaultPrevented' = FALSE /\ pressedKey' = NoCall

\* The step is no updateConfig() call.
NoArgument == argument' = << >>

\* Room for the element and the callback an init() may add.
Room == Len(elements) < MaxElements /\ rafPending < MaxRaf

\* flag.init()
CallInit(fault) ==
    /\ Room
    /\ Apply(init(World(fault)))
    /\ Called("init")
    /\ NoKeyEvent
    /\ NoArgument
    /\ UNCHANGED <<hostVars, returned, returnedFor>>

\* flag.destroy()
CallDestroy(fault) ==
    /\ Apply(destroy(World(fault)))
    /\ Called("destroy")
    /\ NoKeyEvent
    /\ NoArgument
    /\ UNCHANGED <<hostVars, returned, returnedFor>>

\* flag.updateConfig(newConfig)
CallUpdateConfig(fault) ==
    /\ Room
    /\ \E newConfig \in PartialConfigs :
          /\ Apply(updateConfig(World(fault), newConfig))
          /\ argument' = newConfig
    /\ Called("updateConfig")
    /\ NoKeyEvent
    /\ UNCHANGED <<hostVars, returned, returnedFor>>

\* Mutant: the call answers with the environment the current element was built
\* for, if there is one.
CallGetCurrentEnvironment_cached ==
    /\ returned' = (IF flagElement # Null THEN elements[flagElement].dataEnv
                    ELSE getCurrentEnvironment(config))
    /\ returnedFor' = config
    /\ thrown' = (returned' = ReferenceError)
    /\ NoKeyEvent
    /\ NoArgument
    /\ UNCHANGED <<hostVars, compVars, domVars, calls, autoEnvFlag>>

\* flag.getCurrentEnvironment()
CallGetCurrentEnvironment ==
    /\ returned' = getCurrentEnvironment(config)
    /\ returnedFor' = config
    /\ thrown' = (getCurrentEnvironment(config) = ReferenceError)
    /\ NoKeyEvent
    /\ NoArgument
    /\ UNCHANGED <<hostVars, compVars, domVars, calls, autoEnvFlag>>

\* The browser runs the oldest scheduled animation-frame callback.
AnimationFrame ==
    /\ rafPending > 0
    /\ Apply(animationFrame(World("none")))
    /\ NoKeyEvent
    /\ NoArgument
    /\ UNCHANGED <<hostVars, returned, returnedFor, calls>>

\* An element of the document that has a listener for the event.
Listening(e, event) == Contains(bodyChildren, e) /\ event \in elements[e].listeners

\* The user clicks an indicator element of the document: the browser runs
\* handleClick if the element has the click listener, and nothing otherwise.
Click(fault) ==
    /\ \E e \in DOMAIN elements :
          /\ Contains(bodyChildren, e)
          /\ Apply(IF Listening(e, "click") THEN handleClick(World(fault))
                   ELSE World(fault))
    /\ Called("click")
    /\ NoKeyEvent
    /\ NoArgument
    /\ UNCHANGED <<hostVars, returned, returnedFor>>

\* The user presses a key while an indicator element of the document has the
\* focus (tabindex="0" makes it focusable): the browser runs handleKeydown if
\* the element has the keydown listener, and nothing otherwise.
Keydown(fault) ==
    /\ \E e \in DOMAIN elements, key \in Keys :
          /\ Contains(bodyChildren, e)
          /\ elements[e].tabindex = "0"
          /\ Apply(IF Listening(e, "keydown") THEN handleKeydown(World(fault), key)
                   ELSE World(fault))
          /\ defaultPrevented' = (Listening(e, "keydown") /\ ActivationKey(key))
          /\ pressedKey' = key
    /\ Called("keydown")
    /\ NoArgument
    /\ UNCHANGED <<hostVars, returned, returnedFor>>

\* The pointer enters the indicator.
MouseEnter ==
    /\ \E e \in DOMAIN elements : Listening(e, "mouseenter")
    /\ Apply(handleMouseEnter(World("none")))
    /\ NoKeyEvent
    /\ NoArgument
    /\ UNCHANGED <<hostVars, returned, returnedFor, calls>>

\* The pointer leaves the indicator.
MouseLeave ==
    /\ \E e \in DOMAIN elements : Listening(e, "mouseleave")
    /\ Apply(handleMouseLeave(World("none")))
    /\ NoKeyEvent
    /\ NoArgument
    /\ UNCHANGED <<hostVars, returned, returnedFor, calls>>

\* The parser reaches <body>: document.body exists from now on.
BodyParsed ==
    /\ window /\ ~body
    /\ body' = TRUE
    /\ NoKeyEvent
    /\ NoArgument
    /\ UNCHANGED <<window, hostname, importMetaEnv, processEnv, compVars, domVars,
                   returned, returnedFor, thrown, calls, autoEnvFlag>>

\* The module's own instance and the DOM, for a method run on that instance.
AutoWorld ==
    [config |-> autoEnvFlag.config, flagElement |-> autoEnvFlag.flagElement,
     eventListeners |-> autoEnvFlag.eventListeners, elements |-> elements,
     bodyChildren |-> bodyChildren, rafPending |-> autoEnvFlag.rafPending,
     thrown |-> FALSE, fault |-> "none"]

\* The module's own instance and the DOM after a method of that instance that
\* ended in w; the user's instance is not touched.
AutoApply(w, status) ==
    /\ autoEnvFlag' = [status |-> status, config |-> w.config,
                       flagElement |-> w.flagElement,
                       eventListeners |-> w.eventListeners,
                       rafPending |-> w.rafPending]
    /\ elements' = w.elements
    /\ bodyChildren' = w.bodyChildren
    /\ thrown' = w.thrown
    /\ NoKeyEvent
    /\ NoArgument
    /\ UNCHANGED <<hostVars, compVars, rafPending, returned, returnedFor, calls>>

\* The module is evaluated in a browser: it constructs autoEnvFlag with
\* { debug: true } and calls its init() at once, or on DOMContentLoaded when
\* the document is still loading (as it is whenever the body is not parsed).
ModuleLoad ==
    /\ autoEnvFlag.status = "unloaded"
    /\ window
    /\ \E loading \in (IF body THEN BOOLEAN ELSE {TRUE}) :
          LET constructed == [AutoWorld EXCEPT !.config = constructor([debug |-> TRUE])]
          IN  IF loading THEN AutoApply(constructed, "waiting")
              ELSE AutoApply(init(constructed), "initialized")

\* DOMContentLoaded fires, the document being parsed: autoEnvFlag.init()
DOMContentLoaded ==
    /\ autoEnvFlag.status = "waiting"
    /\ body
    /\ AutoApply(init(AutoWorld), "initialized")

\* The browser runs the oldest animation-frame callback of autoEnvFlag.
AutoAnimationFrame ==
    /\ autoEnvFlag.rafPending > 0
    /\ AutoApply(animationFrame(AutoWorld), autoEnvFlag.status)

\* User code, which runs once the module is loaded: flag.init(). Room is left
\* for the element autoEnvFlag has still to create.
UserInit ==
    /\ autoEnvFlag.status # "unloaded"
    /\ autoEnvFlag.status = "waiting" => Len(elements) + 1 < MaxElements
    /\ CallInit("none")

-----------------------------------------------------------------------------
(* Specifications *)

\* The lifecycle when every host call succeeds.
Next ==
    \/ CallInit("none")
    \/ CallDestroy("none")
    \/ CallUpdateConfig("none")
    \/ AnimationFrame
    \/ Click("none")
    \/ Keydown("none")
    \/ BodyParsed

Spec == Init /\ [][Next]_vars

\* The lifecycle in a browser that runs every scheduled animation-frame
\* callback in the end.
SpecLive == Init /\ [][Next]_vars /\ WF_vars(AnimationFrame)

\* The lifecycle when a host call may raise.
NextFault ==
    \/ \E fault \in Faults : CallInit(fault)
    \/ \E fault \in Faults : CallDestroy(fault)
    \/ \E fault \in Faults : CallUpdateConfig(fault)
    \/ AnimationFrame
    \/ \E fault \in Faults : Click(fault)
    \/ \E fault \in Faults : Keydown(fault)
    \/ BodyParsed

SpecFault == Init /\ [][NextFault]_vars

\* The lifecycle with the pointer's hover events.
NextPointer == Next \/ MouseEnter \/ MouseLeave

SpecPointer == Init /\ [][NextPointer]_vars

\* The lifecycle calls interleaved with getCurrentEnvironment() calls.
NextQuery ==
    \/ CallInit("none")
    \/ CallDestroy("none")
    \/ CallUpdateConfig("none")
    \/ AnimationFrame
    \/ CallGetCurrentEnvironment

SpecQuery == Init /\ [][NextQuery]_vars

\* A page that loads the module and uses one instance of its own.
NextModule ==
    \/ ModuleLoad
    \/ DOMContentLoaded
    \/ AutoAnimationFrame
    \/ UserInit
    \/ AnimationFrame
    \/ BodyParsed

SpecModule == InitModule /\ [][NextModule]_vars

\* The resolver on custom variables alone.
NextCustom == CallGetCurrentEnvironment

SpecCustom == InitCustom /\ [][NextCustom]_vars

\* The resolver on hostnames alone.
NextHost == CallGetCurrentEnvironment

SpecHost == InitHost /\ [][NextHost]_vars

\* The resolver: one getCurrentEnvironment() call on each combination of inputs.
NextEnv == CallGetCurrentEnvironment

SpecEnv == InitEnv /\ [][NextEnv]_vars

-----------------------------------------------------------------------------
(* Properties of the resolver, under SpecEnv *)

\* The values the custom variables hold, over both stores.
CustomValues ==
    {st.vars[customEnvVars[i]] : st \in {importMetaEnv, processEnv},
                                 i \in 1..Len(customEnvVars)}

\* The generic runtime signal of each store.
GenericValues ==
    {Or(importMetaEnv.vars["NODE_ENV"], importMetaEnv.vars["VITE_NODE_ENV"]),
     processEnv.vars["NODE_ENV"]}

\* No override is configured and auto-detect is on, in a browser host, and
\* getCurrentEnvironment() has been called.
Detected ==
    /\ returned # NoCall
    /\ ~Truthy(Get(config, "forceEnv"))
    /\ config.autoDetectEnv
    /\ window

\* C1: with forceEnv = e, getCurrentEnvironment() returns e, whatever the
\* auto-detect toggle, the variables, the generic signal, the hostname and the
\* host are.
C1_ForcedEnvironmentWins ==
    (returned # NoCall /\ Truthy(Get(config, "forceEnv")))
        => returned = config.forceEnv

\* A forced environment returned against an auto-detect that would say otherwise.
C1_Witness ==
    /\ returned = "staging"
    /\ Get(config, "forceEnv") = "staging"
    /\ config.autoDetectEnv
    /\ window
    /\ hostname = "my-test-site.io"
    /\ processEnv.vars["VITE_ENV"] = "production"

\* C2: with no forceEnv and autoDetectEnv = false, getCurrentEnvironment()
\* returns "development" for every value of the variables, the generic signal
\* and the hostname; no host signal is read, so it returns also in a host that
\* has no window.
C2_AutoDetectOffIsDevelopment ==
    (returned # NoCall /\ ~Truthy(Get(config, "forceEnv")) /\ ~config.autoDetectEnv)
        => returned = "development"

\* Auto-detect is off while every signal says production.
C2_Witness ==
    /\ returned = "development"
    /\ ~Truthy(Get(config, "forceEnv"))
    /\ ~config.autoDetectEnv
    /\ hostname = "app.example.com"
    /\ importMetaEnv.vars["NODE_ENV"] = "production"
    /\ processEnv.vars["VUE_APP_ENV"] = "production"

\* C3: with no override and auto-detect on, a recognized custom variable gives
\* the result whatever the generic signal and the hostname are; otherwise a
\* recognized generic signal gives it whatever the hostname is; the hostname
\* heuristic decides only when neither matched.
C3_ResolutionPriority ==
    Detected =>
        IF CustomValues \cap Environment # {}
        THEN returned \in CustomValues \cap Environment
        ELSE IF GenericValues \cap Environment # {}
        THEN returned \in GenericValues \cap Environment
        ELSE returned = HostnameEnvironment(hostname)

\* A custom variable, a generic signal and a hostname that all disagree.
C3_Witness ==
    /\ Detected
    /\ processEnv.vars["VUE_APP_ENV"] = "staging"
    /\ importMetaEnv.vars["NODE_ENV"] = "test"
    /\ hostname = "app.example.com"
    /\ returned = "staging"

\* The result the claim gives for each of its five hostnames.
C4_Expected(h) ==
    CASE h = "staging.example.com" -> "staging"
      [] h = "my-test-site.io" -> "test"
      [] h = "app.example.com" -> "production"
      [] h = "localhost" -> "development"
      [] h = "" -> "development"

\* C4: with no override, auto-detect on and no custom or generic match,
\* "staging.example.com" resolves to staging, "my-test-site.io" to test,
\* "app.example.com" to production, "localhost" and "" to development.
C4_HostnameExamples ==
    (/\ Detected
     /\ CustomValues \cap Environment = {}
     /\ GenericValues \cap Environment = {}
     /\ hostname \in {"staging.example.com", "my-test-site.io", "app.example.com",
                      "localhost", ""})
        => returned = C4_Expected(hostname)

\* The test hostname resolved while the variables hold only unrecognized values.
C4_Witness ==
    /\ Detected
    /\ hostname = "my-test-site.io"
    /\ returned = "test"
    /\ importMetaEnv.vars["VITE_ENV"] = "prod"
    /\ processEnv.vars["NODE_ENV"] = "prod"

\* No override, auto-detect on, a browser host, a call made, and no custom
\* variable holding a recognized name.
C18_ReachesGeneric == Detected /\ CustomValues \cap Environment = {}

\* C18 as stated: a generic signal (import.meta.env.NODE_ENV, its bundler
\* equivalent import.meta.env.VITE_NODE_ENV, process.env.NODE_ENV) that is
\* present and recognized is returned, for every hostname; when no generic
\* signal is recognized the hostname heuristic decides.
C18_GenericSignalReturned ==
    LET recognized == {importMetaEnv.vars["NODE_ENV"], importMetaEnv.vars["VITE_NODE_ENV"],
                       processEnv.vars["NODE_ENV"]} \cap Environment
    IN  C18_ReachesGeneric
           => IF recognized # {} THEN returned \in recognized
              ELSE returned = HostnameEnvironment(hostname)

\* C18 (amended): the signal of import.meta.env is NODE_ENV, or VITE_NODE_ENV
\* when NODE_ENV is unset or empty; if it is recognized it is returned, else
\* process.env.NODE_ENV is returned if recognized, else the hostname heuristic
\* decides. A recognized VITE_NODE_ENV behind an unrecognized NODE_ENV is not
\* looked at.
C18_GenericSignalComposed ==
    LET metaSignal == IF importMetaEnv.vars["NODE_ENV"] \in {Undefined, ""}
                      THEN importMetaEnv.vars["VITE_NODE_ENV"]
                      ELSE importMetaEnv.vars["NODE_ENV"]
        processSignal == processEnv.vars["NODE_ENV"]
    IN  C18_ReachesGeneric
           => IF metaSignal \in Environment THEN returned = metaSignal
              ELSE IF processSignal \in Environment THEN returned = processSignal
              ELSE returned = HostnameEnvironment(hostname)

\* A recognized VITE_NODE_ENV hidden by an unrecognized NODE_ENV: the hostname
\* decides.
C18_Witness ==
    /\ C18_ReachesGeneric
    /\ importMetaEnv.vars["NODE_ENV"] = "prod"
    /\ importMetaEnv.vars["VITE_NODE_ENV"] = "staging"
    /\ hostname = "my-test-site.io"
    /\ returned = "test"

-----------------------------------------------------------------------------
(* Properties of the lifecycle, under Spec *)

\* An enabled component in a browser host.
EnabledInBrowser == config.enabled /\ window

\* C5: after init() then destroy() on an enabled component in a browser host,
\* the document holds no indicator element and the listener registry is empty,
\* in every later state, whether the scheduled tick fired before or after
\* destroy().
C5_DestroyLeavesNothing ==
    (calls = <<"init", "destroy">> /\ EnabledInBrowser)
        => (bodyChildren = << >> /\ eventListeners = << >>)

\* C6: init() twice in a row on an enabled component in a browser host never
\* gives two indicator elements, and once every scheduled tick has fired
\* exactly one exists.
C6_TwoInitsExactlyOne ==
    (calls = <<"init", "init">> /\ EnabledInBrowser)
        => /\ Len(bodyChildren) <= 1
           /\ rafPending = 0 => Len(bodyChildren) = 1

\* C6 as amended: init() twice in a row never gives two indicator elements;
\* when the last scheduled tick fires while document.body exists, exactly one
\* exists, and it stays until the next call or dismissal.
C6_TwoInitsAtMostOne ==
    [][/\ (calls' = <<"init", "init">> /\ EnabledInBrowser')
            => Len(bodyChildren') <= 1
       /\ (/\ calls = <<"init", "init">> /\ EnabledInBrowser
           /\ rafPending = 1 /\ rafPending' = 0 /\ body)
            => Len(bodyChildren') = 1
       /\ (/\ calls = <<"init", "init">> /\ calls' = calls /\ elements' = elements
           /\ Len(bodyChildren) = 1)
            => bodyChildren' = bodyChildren]_vars

\* Two inits, both ticks fired, and the second element alone in the document.
C6_Witness ==
    /\ calls = <<"init", "init">>
    /\ EnabledInBrowser
    /\ rafPending = 0
    /\ Len(elements) >= 2
    /\ bodyChildren = <<flagElement>>

\* C7: whenever enabled = false, after init() (also the one updateConfig runs)
\* has returned and every pending tick has fired, no indicator element is in
\* the document, from every prior state.
C7_DisabledShowsNothing ==
    (/\ ~config.enabled
     /\ window
     /\ calls[2] \in {"init", "updateConfig"}
     /\ rafPending = 0)
        => bodyChildren = << >>

\* The font-size and padding the claim gives for each size.
C8_Expected(size) ==
    CASE size = "small" -> <<"10px", "4px 8px">>
      [] size = "medium" -> <<"12px", "6px 12px">>
      [] size = "large" -> <<"14px", "8px 16px">>

\* C8: after updateConfig(p) on an enabled component in a browser host, once
\* the tick has fired, the document holds at most one indicator element, it is
\* the element that call created (none rendered before it is left), and its
\* font-size and padding are those of the merged configuration's size.
C8_UpdateConfigRestyles ==
    (calls[2] = "updateConfig" /\ EnabledInBrowser /\ rafPending = 0)
        => /\ Len(bodyChildren) <= 1
           /\ \A i \in 1..Len(bodyChildren) :
                LET el == elements[bodyChildren[i]]
                IN  /\ bodyChildren[i] = Len(elements)
                    /\ <<el.style.fontSize, el.style.padding>> = C8_Expected(config.size)

\* A rendered medium element replaced by a rendered large one.
C8_Witness ==
    /\ calls[2] = "updateConfig"
    /\ EnabledInBrowser
    /\ rafPending = 0
    /\ config.size = "large"
    /\ bodyChildren = <<2>>
    /\ elements[1].style.fontSize = "12px"
    /\ elements[2].style.fontSize = "14px"
    /\ elements[2].style.padding = "8px 16px"

\* C9: in every state reachable by init(), destroy(), updateConfig(), click,
\* keydown and animation-frame ticks, the document holds zero or one indicator
\* element of the component.
C9_AtMostOneElement == Len(bodyChildren) <= 1

\* An element in the document after an earlier one was dismissed by a click.
C9_Witness ==
    /\ Len(bodyChildren) = 1
    /\ Len(elements) >= 2
    /\ calls[1] = "click"

-----------------------------------------------------------------------------
(* Properties of the lifecycle when host calls may raise, under SpecFault *)

\* C10: an exception raised inside init() or destroy() is never propagated to
\* the caller of init(), destroy() or updateConfig().
C10_NothingPropagates ==
    calls[2] \in {"init", "destroy", "updateConfig"} => ~thrown

-----------------------------------------------------------------------------
(* Properties of the lifecycle in a host that is not a browser, under Spec *)

\* A step that is a lifecycle call or an event of the given kind: it is the
\* last entry of calls, and the step is neither an animation-frame tick (which
\* consumes a callback) nor the parser reaching the body.
StepOf(op) ==
    /\ calls' = <<calls[2], op>>
    /\ rafPending' >= rafPending
    /\ body' = body

\* C11: when the host has no window or no document, init() and updateConfig()
\* create no element, register no listener, schedule no animation frame, and
\* leave the element reference, the listener registry and the document as they
\* were.
C11_NonBrowserNoDom ==
    [][(~window /\ (StepOf("init") \/ StepOf("updateConfig")))
          => /\ elements' = elements
             /\ eventListeners' = eventListeners
             /\ rafPending' = rafPending
             /\ flagElement' = flagElement
             /\ bodyChildren' = bodyChildren]_vars

\* An updateConfig() after an init() in a non-browser host, with an override
\* that would let the element be built without reading the location.
C11_Witness ==
    /\ ~window
    /\ calls = <<"init", "updateConfig">>
    /\ config.enabled
    /\ Get(config, "forceEnv") = "staging"
    /\ config.size = "large"
    /\ elements = << >>

-----------------------------------------------------------------------------
(* Properties of the pointer and keyboard events, under Spec *)

\* C12: whenever an indicator element of the component is in the document, a
\* pointer click on it dismisses it: after the click no indicator element is
\* in the document and the listener registry is empty.
C12_ClickDismisses ==
    calls[2] = "click" => (bodyChildren = << >> /\ eventListeners = << >>)

\* C13: a keydown event on the indicator with key Enter or Space suppresses the
\* default key action and destroys the indicator, as a click does; a keydown
\* with any other key leaves the element, the listener registry and the
\* configuration unchanged and does not suppress the default action.
C13_KeyboardActivation ==
    [][StepOf("keydown")
          => IF pressedKey' \in {"Enter", " "}
             THEN /\ defaultPrevented'
                  /\ bodyChildren' = << >>
                  /\ eventListeners' = << >>
                  /\ flagElement' = Null
                  /\ config' = config
             ELSE /\ ~defaultPrevented'
                  /\ flagElement' = flagElement
                  /\ elements' = elements
                  /\ bodyChildren' = bodyChildren
                  /\ eventListeners' = eventListeners
                  /\ config' = config]_vars

-----------------------------------------------------------------------------
(* Properties of getCurrentEnvironment() amid the lifecycle, under SpecQuery *)

\* C14: getCurrentEnvironment() leaves the configuration, the element
\* reference, the listener registry and the document unchanged, and two calls
\* made with the same configuration (the host signals being the same) return
\* the same value whatever init(), destroy() and updateConfig() calls and ticks
\* happened between them.
C14_QueryIsPure ==
    [][/\ (returned' # returned \/ returnedFor' # returnedFor)
             => UNCHANGED <<config, flagElement, eventListeners, elements,
                            bodyChildren, rafPending>>
       /\ (returned # NoCall /\ returnedFor = config /\ returnedFor' = config)
             => returned' = returned]_vars

\* A call answered "production" while the component is disabled and the
\* element left in the document was built for "staging".
C14_Witness ==
    /\ returned = "production"
    /\ returnedFor = config
    /\ ~config.enabled
    /\ flagElement # Null
    /\ bodyChildren = <<flagElement>>
    /\ elements[flagElement].dataEnv = "staging"

-----------------------------------------------------------------------------
(* Properties of a failed initialization, under SpecFault *)

\* C15: if init() (called directly or by updateConfig()) fails part-way, the
\* component is left as if absent: no indicator element in the document, no
\* element reference retained (so no later tick can insert one), and an empty
\* listener registry.
C15_FailedInitIsAbsent ==
    (calls[2] \in {"init", "updateConfig"} /\ thrown)
        => /\ bodyChildren = << >>
           /\ flagElement = Null
           /\ eventListeners = << >>

-----------------------------------------------------------------------------
(* Properties of the hostname heuristic, under SpecHost *)

\* The reference rule of the hostname heuristic.
C16_Reference(h) ==
    IF Includes(h, "staging") \/ Includes(h, "stage") THEN "staging"
    ELSE IF Includes(h, "test") THEN "test"
    ELSE IF /\ Len(h) > 0
            /\ \A marker \in {"localhost", "127.0.0.1", "dev", "staging", "test"} :
                  ~Includes(h, marker)
         THEN "production"
    ELSE "development"

\* C16: when resolution reaches the hostname heuristic, the result equals the
\* reference rule for every hostname: staging for every hostname containing
\* "staging" or "stage" (also with "prod" in it), else test, else production
\* for a non-empty hostname free of the development markers, else development.
C16_HostnameRule ==
    returned # NoCall => returned = C16_Reference(hostname)

-----------------------------------------------------------------------------
(* Properties of the custom-variable match, under SpecCustom *)

\* The positions of the priority list at which the store holds a recognized name.
C17_Hits(store) ==
    {i \in 1..Len(customEnvVars) :
        store.present /\ store.vars[customEnvVars[i]] \in Environment}

\* The least position of a non-empty set of positions.
C17_First(hits) == CHOOSE i \in hits : \A j \in hits : i <= j

\* C17 as stated: the value of the first variable of the fixed order that holds
\* a recognized name is returned, the order deciding also between variables of
\* different stores.
C17_ListOrderDecides ==
    LET hits == C17_Hits(importMetaEnv) \cup C17_Hits(processEnv)
        first == customEnvVars[C17_First(hits)]
    IN  (returned # NoCall /\ hits # {})
           => \/ /\ C17_First(hits) \in C17_Hits(importMetaEnv)
                 /\ returned = importMetaEnv.vars[first]
              \/ /\ C17_First(hits) \in C17_Hits(processEnv)
                 /\ returned = processEnv.vars[first]

\* C17 (amended): import.meta.env is looked at first and process.env only when
\* no variable of import.meta.env holds a recognized name; within the store
\* looked at, the value of the first variable of the fixed order that holds a
\* recognized name is returned, variables with any other value being skipped.
C17_StoreThenListOrder ==
    LET meta == C17_Hits(importMetaEnv)
        process == C17_Hits(processEnv)
    IN  returned # NoCall
           => IF meta # {}
              THEN returned = importMetaEnv.vars[customEnvVars[C17_First(meta)]]
              ELSE process # {}
                      => returned = processEnv.vars[customEnvVars[C17_First(process)]]

\* The last variable of the list in import.meta.env wins over the first one in
\* process.env.
C17_Witness ==
    /\ importMetaEnv.vars["VUE_APP_ENV"] = "staging"
    /\ processEnv.vars["VITE_APP_NODE_ENV"] = "production"
    /\ returned = "staging"

-----------------------------------------------------------------------------
(* Properties of the configuration, under Spec *)

\* The fields of the configuration that hold a boolean.
C19_BooleanFields == {"autoDetectEnv", "enabled", "debug"}

\* C19: updateConfig(p) sets exactly the fields named in p to p's values and
\* leaves every other field at its previous value, also when the init() that
\* follows does nothing (component disabled, host not a browser); so every
\* field except forceEnv is populated in every state.
C19_UpdateConfigMerges ==
    /\ [][StepOf("updateConfig")
             => /\ DOMAIN config' = (DOMAIN config) \cup (DOMAIN argument')
                /\ \A f \in DOMAIN config' :
                      config'[f] = IF f \in DOMAIN argument' THEN argument'[f]
                                   ELSE config[f]]_vars
    /\ [](\A f \in ConfigFields \ {"forceEnv"} :
             /\ f \in DOMAIN config
             /\ IF f \in C19_BooleanFields THEN config[f] \in BOOLEAN
                ELSE config[f] # Undefined)

\* A size merged into the configuration of a disabled component, for which
\* init() creates nothing.
C19_Witness ==
    /\ calls = <<NoCall, "updateConfig">>
    /\ argument = [size |-> "large"]
    /\ window
    /\ ~config.enabled
    /\ config.size = "large"
    /\ config.position = "bottom-right"
    /\ elements = << >>

-----------------------------------------------------------------------------
(* Properties of the deferred insertion, under SpecLive *)

\* An init() that acts has just returned and its element waits for a tick
\* while the body exists.
C20_Waiting ==
    /\ calls[2] \in {"init", "updateConfig"}
    /\ EnabledInBrowser
    /\ body
    /\ flagElement # Null
    /\ rafPending > 0

\* C20: when init() returns, the new element is created, styled and has its
\* four listeners registered but is not in the document, and one callback is
\* scheduled; a tick does nothing but insert the element, and only if the body
\* exists; without a pending callback nothing is ever inserted (no retry); and
\* with the body present the indicator is in the document in the end unless a
\* destroy() or a dismissal intervenes.
C20_OnlyInsertionDeferred ==
    /\ [][((StepOf("init") \/ StepOf("updateConfig")) /\ window /\ config'.enabled)
             => /\ elements' # elements
                /\ flagElement' = Len(elements')
                /\ Len(elements') = Len(elements) + 1
                /\ elements'[flagElement'].style.fontSize # ""
                /\ elements'[flagElement'].style.backgroundColor # ""
                /\ elements'[flagElement'].textContent # ""
                /\ elements'[flagElement'].listeners
                      = {"click", "mouseenter", "mouseleave", "keydown"}
                /\ Len(eventListeners') = 4
                /\ \A i \in 1..4 : eventListeners'[i].element = flagElement'
                /\ ~Contains(bodyChildren', flagElement')
                /\ rafPending' = rafPending + 1]_vars
    /\ [][rafPending' < rafPending
             => /\ UNCHANGED <<config, flagElement, eventListeners, elements>>
                /\ rafPending' = rafPending - 1
                /\ IF body /\ flagElement # Null
                   THEN bodyChildren' = <<flagElement>>
                   ELSE bodyChildren' = bodyChildren]_vars
    /\ [][rafPending = 0
             => \A e \in DOMAIN elements' :
                   Contains(bodyChildren', e) => Contains(bodyChildren, e)]_vars
    /\ C20_Waiting
          ~> (bodyChildren # << >> \/ calls[2] \in {"destroy", "click", "keydown"})

\* The only tick fired before the body was parsed: the element, styled and
\* listening, stays outside the document for good.
C20_Witness ==
    /\ calls = <<NoCall, "init">>
    /\ body
    /\ rafPending = 0
    /\ flagElement = 1
    /\ Len(eventListeners) = 4
    /\ elements[1].style.fontSize # ""
    /\ bodyChildren = << >>

-----------------------------------------------------------------------------
(* Properties of the resolver in every host, under SpecEnv *)

\* C21: getCurrentEnvironment() returns one of the four environment names and
\* never raises, for every configuration and in every host, a host without
\* window/document included.
C21_AlwaysAnEnvironment ==
    returned # NoCall => (returned \in Environment /\ ~thrown)

-----------------------------------------------------------------------------
(* Properties of a page that loads the module, under SpecModule *)

\* The elements of the document that carry the fixed id.
C22_Indicators ==
    {i \in 1..Len(bodyChildren) : elements[bodyChildren[i]].id = "env-flag-indicator"}

\* C22: once the module is loaded and has initialized its own instance, the
\* user's instance has been constructed and init() called on it, and every
\* animation-frame callback has run, the document holds at most one element
\* with the id "env-flag-indicator", and none when the user's configuration has
\* enabled = false.
C22_OneIndicatorPerPage ==
    (/\ autoEnvFlag.status = "initialized"
     /\ calls[2] = "init"
     /\ rafPending = 0
     /\ autoEnvFlag.rafPending = 0)
        => /\ Cardinality(C22_Indicators) <= 1
           /\ ~config.enabled => C22_Indicators = {}

=============================================================================
